---- MODULE Spec2Model ----
(***************************************************************************)
(* The base-python service template: main.py (application bootstrap and    *)
(* the root endpoint) and routes/health.py (the health sub-router).        *)
(*                                                                         *)
(* Strings that the code parses are sequences of one-character strings.    *)
(* A value that may be None is a set with at most one element.             *)
(* A path "/a/b/" is the record [segs |-> <<"a","b">>, slash |-> TRUE].    *)
(* time.time() is the wall clock, in ticks; the operating system may set   *)
(* it backwards.  The bind of the listener is assumed to be granted by     *)
(* the operating system whenever the port number is a TCP port.            *)
(*                                                                         *)
(* What the calls into FastAPI, Starlette's CORSMiddleware, python-dotenv  *)
(* and uvicorn do is modelled at the line of main.py that makes the call.  *)
(* The model follows one load of main and routes.health, that is one       *)
(* process lifetime; handlers contain no await, so each runs as one step.  *)
(***************************************************************************)
EXTENDS Integers, Sequences, FiniteSets, TLC

VARIABLES
    procEnv,     \* PORT in the environment the process was launched with
    dotenvFile,  \* PORT in the .env file
    defaultPort, \* the value substituted for the PORT placeholder
    environ,     \* os.environ["PORT"]
    clock,       \* the current reading of time.time()
    start_time,  \* routes.health.start_time
    router,      \* routes.health.router: the routes of the sub-router
    routes,      \* app.router.routes
    middleware,  \* app.user_middleware: the CORS policy, when installed
    port,        \* the local variable port of the entrypoint
    listener,    \* the bound socket: [host, port]
    pc,          \* position of the entrypoint
    exitCode,    \* exit status of the process, when it has exited by itself
    lastReq,     \* the most recent request served
    lastResp,    \* the response to it
    lastUptime   \* the uptime of the most recent GET /health/ response

vars == <<procEnv, dotenvFile, defaultPort, environ, clock, start_time, router,
          routes, middleware, port, listener, pc, exitCode, lastReq, lastResp,
          lastUptime>>

\* ---------------------------------------------------------------- bounds

MaxClock == 2

\* ------------------------------------------------------------ optionals

None == {}

Some(x) == {x}

Val(o) == CHOOSE x \in o : TRUE

\* ------------------------------------------------------------ int(...)

Digits == <<"0", "1", "2", "3", "4", "5", "6", "7", "8", "9">>

IsDigit(c) == \E i \in 1..Len(Digits) : Digits[i] = c

DigitVal(c) == (CHOOSE i \in 1..Len(Digits) : Digits[i] = c) - 1

IsSpace(c) == c \in {" ", "\t", "\n"}

RECURSIVE LStrip(_)
LStrip(s) == IF s # <<>> /\ IsSpace(Head(s)) THEN LStrip(Tail(s)) ELSE s

RECURSIVE RStrip(_)
RStrip(s) ==
    IF s # <<>> /\ IsSpace(s[Len(s)]) THEN RStrip(SubSeq(s, 1, Len(s) - 1)) ELSE s

Strip(s) == RStrip(LStrip(s))

\* The digits of a decimal literal: digits, single underscores between them.
WellFormedDigits(d) ==
    /\ d # <<>>
    /\ \A i \in 1..Len(d) : IsDigit(d[i]) \/ d[i] = "_"
    /\ IsDigit(d[1]) /\ IsDigit(d[Len(d)])
    /\ \A i \in 1..(Len(d) - 1) : ~(d[i] = "_" /\ d[i + 1] = "_")

RECURSIVE DigitsValue(_, _)
DigitsValue(d, acc) ==
    IF d = <<>> THEN acc
    ELSE IF Head(d) = "_" THEN DigitsValue(Tail(d), acc)
    ELSE DigitsValue(Tail(d), 10 * acc + DigitVal(Head(d)))

ValueError == [ok |-> FALSE]

\* int(s) of a str: surrounding whitespace is dropped, one sign is allowed.
IntOfStr(s) ==
    LET t == Strip(s)
        signed == t # <<>> /\ Head(t) \in {"+", "-"}
        d == IF signed THEN Tail(t) ELSE t
    IN IF ~WellFormedDigits(d) THEN ValueError
       ELSE [ok |-> TRUE,
             n |-> IF signed /\ Head(t) = "-" THEN 0 - DigitsValue(d, 0)
                   ELSE DigitsValue(d, 0)]

\* ------------------------------------------------------- configuration

Str(s) == [kind |-> "str", s |-> s]

Num(n) == [kind |-> "int", n |-> n]

\* load_dotenv(): a key of .env is set unless the environment already has it.
LoadDotenvMerge(env, file) == IF env # None THEN env ELSE file

\* os.getenv("PORT", default)
GetenvPortIgnoringEnv(env, default) == Num(default)

GetenvPort(env, default) == IF env = None THEN Num(default) ELSE Str(Val(env))

\* int(v): of an int it is the int, of a str it is parsed.
PyIntAcceptingAnything(v) ==
    IF v.kind = "int" THEN [ok |-> TRUE, n |-> v.n]
    ELSE IF IntOfStr(v.s).ok THEN IntOfStr(v.s) ELSE [ok |-> TRUE, n |-> 0]

PyInt(v) == IF v.kind = "int" THEN [ok |-> TRUE, n |-> v.n] ELSE IntOfStr(v.s)

\* The port numbers a socket can be bound to; 0 asks for an ephemeral one.
MaxPort == 65535

EphemeralPorts == {32768, 60999}

BindableAnyNumber(p) == TRUE

Bindable(p) == p \in 0..MaxPort

BoundPorts(p) == IF p = 0 THEN EphemeralPorts ELSE {p}

\* ----------------------------------------------------------------- paths

Path(segs, slash) == [segs |-> segs, slash |-> slash]

RootPath == Path(<<>>, TRUE)

\* include_router(prefix=...): the prefix is put before the route's path.
Prefixed(prefix, path) == Path(prefix \o path.segs, path.slash)

\* The path with its trailing slash removed, or added when it has none.
ToggleSlash(path) == Path(path.segs, ~path.slash)

Route(path, methods, endpoint) ==
    [path |-> path, methods |-> methods, endpoint |-> endpoint]

\* routes/health.py: the two routes of the sub-router.
HealthRouterRoutes ==
    { Route(Path(<<>>, TRUE), {"GET"}, "health"),
      Route(Path(<<"ready">>, FALSE), {"GET"}, "ready") }

\* FastAPI(title=...): the documentation routes the constructor installs.
DocsRoutes ==
    { Route(Path(<<"openapi.json">>, FALSE), {"GET", "HEAD"}, "openapi"),
      Route(Path(<<"docs">>, FALSE), {"GET", "HEAD"}, "swagger_ui_html"),
      Route(Path(<<"docs", "oauth2-redirect">>, FALSE), {"GET", "HEAD"},
            "swagger_ui_redirect"),
      Route(Path(<<"redoc">>, FALSE), {"GET", "HEAD"}, "redoc_html") }

HealthPrefix == <<"health">>

IncludedRoutes(rs) ==
    { Route(Prefixed(HealthPrefix, r.path), r.methods, r.endpoint) : r \in rs }

RootRoute == Route(RootPath, {"GET"}, "root")

\* CORSMiddleware(allow_origins=["*"], allow_credentials=True,
\*                allow_methods=["*"], allow_headers=["*"])
AllMethods == {"DELETE", "GET", "HEAD", "OPTIONS", "PATCH", "POST", "PUT"}

CorsPolicyOneOrigin ==
    [allow_all_origins |-> FALSE, allow_origins |-> {"https://app.example"},
     allow_credentials |-> TRUE, allow_methods |-> AllMethods,
     allow_all_headers |-> TRUE, allow_headers |-> {}]

CorsPolicy ==
    [allow_all_origins |-> TRUE, allow_origins |-> {},
     allow_credentials |-> TRUE, allow_methods |-> AllMethods,
     allow_all_headers |-> TRUE, allow_headers |-> {}]

\* ------------------------------------------------------------ endpoints

ProjectName == "PROJECT_NAME"

Response(status, body) == [status |-> status, body |-> body, acao |-> None]

\* A dict returned by a path operation is sent as a JSON body with status 200.
JSONResponse(content) == Response(200, content)

\* main.py: root()
rootFarewell == [message |-> <<"Goodbye from ", ProjectName>>]

root == [message |-> <<"Welcome to ", ProjectName>>]

\* routes/health.py: health(), with time.time() read as now
health(now, st) == [status |-> "healthy", uptime |-> now - st]

\* routes/health.py: ready()
readyWhenWarm == [ready |-> clock > Val(start_time)]

ready == [ready |-> TRUE]

\* The documentation endpoints answer with a document of their own.
DocsEndpoints == { r.endpoint : r \in DocsRoutes }

Endpoint(name, now, st) ==
    CASE name = "root" -> JSONResponse(root)
      [] name = "health" -> JSONResponse(health(now, st))
      [] name = "ready" -> JSONResponse(ready)
      [] name \in DocsEndpoints -> Response(200, [document |-> name])

\* ---------------------------------------------------------------- router

Match(route, req) ==
    IF route.path # req.path THEN "NONE"
    ELSE IF req.method \in route.methods THEN "FULL"
    ELSE "PARTIAL"

NotFound == Response(404, [detail |-> "Not Found"])

MethodNotAllowed == Response(405, [detail |-> "Method Not Allowed"])

Redirect(path) == Response(307, [location |-> path])

\* Router.app: the first full match handles the request, a match of the path
\* alone answers 405, a match of the path with its trailing slash toggled
\* redirects, and anything else is not found.
RouterAppCatchAll(rs, req, now, st) ==
    IF \E r \in rs : Match(r, req) = "FULL"
    THEN Endpoint((CHOOSE r \in rs : Match(r, req) = "FULL").endpoint, now, st)
    ELSE JSONResponse(root)

RouterApp(rs, req, now, st) ==
    IF \E r \in rs : Match(r, req) = "FULL"
    THEN Endpoint((CHOOSE r \in rs : Match(r, req) = "FULL").endpoint, now, st)
    ELSE IF \E r \in rs : Match(r, req) = "PARTIAL"
    THEN MethodNotAllowed
    ELSE IF /\ req.path # RootPath
            /\ \E r \in rs :
                   Match(r, [req EXCEPT !.path = ToggleSlash(req.path)]) # "NONE"
    THEN Redirect(ToggleSlash(req.path))
    ELSE NotFound

\* ------------------------------------------------------- CORS middleware

IsAllowedOrigin(policy, origin) ==
    policy.allow_all_origins \/ origin \in policy.allow_origins

PreflightFailures(policy, req) ==
    (IF IsAllowedOrigin(policy, Val(req.origin)) THEN {} ELSE {"origin"})
    \cup (IF Val(req.acrm) \in policy.allow_methods THEN {} ELSE {"method"})
    \cup (IF \/ policy.allow_all_headers
             \/ req.acrh \subseteq policy.allow_headers
          THEN {} ELSE {"headers"})

PreflightAllowOrigin(policy, req) ==
    IF ~policy.allow_all_origins \/ policy.allow_credentials THEN req.origin
    ELSE Some("*")

PreflightResponse(policy, req) ==
    LET failures == PreflightFailures(policy, req)
    IN IF failures # {}
       THEN [Response(400, [disallowed |-> failures]) EXCEPT
                 !.acao = IF "origin" \in failures THEN None
                          ELSE PreflightAllowOrigin(policy, req)]
       ELSE [Response(200, [text |-> "OK"]) EXCEPT
                 !.acao = PreflightAllowOrigin(policy, req)]

\* simple_response: the application answers, the CORS headers are added.
SimpleResponse(policy, req, inner) ==
    [inner EXCEPT !.acao =
        IF policy.allow_all_origins THEN Some("*")
        ELSE IF IsAllowedOrigin(policy, Val(req.origin)) THEN req.origin
        ELSE None]

\* CORSMiddleware.__call__ around the application's router
App(mw, rs, req, now, st) ==
    IF mw = None \/ req.origin = None THEN RouterApp(rs, req, now, st)
    ELSE IF req.method = "OPTIONS" /\ req.acrm # None
    THEN PreflightResponse(Val(mw), req)
    ELSE SimpleResponse(Val(mw), req, RouterApp(rs, req, now, st))

\* ---------------------------------------------------------------- inputs

\* Values of PORT in the environment
PortValues ==
    { <<"8", "0", "8", "0">>, <<"0">>,
      <<"6", "5", "5", "3", "5">>, <<"6", "5", "5", "3", "6">>,
      <<"-", "1">>, <<"+", "8", "0">>, <<" ", "8", "0", "\n">>,
      <<"8", "_", "0">>, <<"8", "0", "_">>, <<"8", "_", "_", "0">>,
      <<"8", "0", ".", "0">>, <<"8", " ", "0">>, <<"a", "b", "c">>,
      <<"+">>, <<" ">>, <<>> }

\* Values of PORT in .env
DotenvValues == { <<"9", "0", "0", "0">>, <<"p", "o", "r", "t">> }

\* The environment and the .env file of a run
Configurations ==
    { <<e, None>> : e \in {None} \cup { Some(v) : v \in PortValues } }
    \cup { <<e, Some(f)>> :
             e \in {None, Some(<<"8", "0", "8", "0">>)}, f \in DotenvValues }

DefaultPorts == {8000}

Paths ==
    { RootPath,
      Path(<<"health">>, TRUE), Path(<<"health">>, FALSE),
      Path(<<"health", "ready">>, FALSE), Path(<<"health", "ready">>, TRUE),
      Path(<<"docs">>, FALSE), Path(<<"docs", "oauth2-redirect">>, FALSE),
      Path(<<"redoc">>, FALSE), Path(<<"openapi.json">>, FALSE),
      Path(<<"does-not-exist">>, FALSE) }

PreflightPaths == { RootPath, Path(<<"does-not-exist">>, FALSE) }

Origins == {"https://app.example", "null"}

RequestedMethods == {"GET", "PROPFIND"}

RequestedHeaders == {{"x-custom", "authorization"}}

Request(method, path, origin, acrm, acrh) ==
    [method |-> method, path |-> path, origin |-> origin, acrm |-> acrm,
     acrh |-> acrh]

\* GET requests with or without an Origin; OPTIONS requests, among them the
\* preflight requests (Origin and Access-Control-Request-Method present).
Requests ==
    { Request("GET", p, o, None, {}) :
          p \in Paths, o \in {None, Some("https://app.example")} }
    \cup { Request("OPTIONS", RootPath, Some("null"), None, {}) }
    \cup UNION { { Request("OPTIONS", p, Some(o), Some(m), h) :
                     p \in PreflightPaths, o \in Origins }
                 : m \in RequestedMethods, h \in {{}} \cup RequestedHeaders }

\* ----------------------------------------------------------------- state

Init ==
    /\ \E c \in Configurations : procEnv = c[1] /\ dotenvFile = c[2]
    /\ defaultPort \in DefaultPorts
    /\ environ = procEnv
    /\ clock = 0
    /\ start_time = None
    /\ router = {}
    /\ routes = {}
    /\ middleware = None
    /\ port = None
    /\ listener = None
    /\ pc = "import_health"
    /\ exitCode = None
    /\ lastReq = None
    /\ lastResp = None
    /\ lastUptime = None

\* main.py:6, which runs routes/health.py: the router, its two routes and
\* start_time = time.time()
ImportHealth ==
    /\ pc = "import_health"
    /\ router' = HealthRouterRoutes
    /\ start_time' = Some(clock)
    /\ pc' = "load_dotenv"
    /\ UNCHANGED <<procEnv, dotenvFile, defaultPort, environ, clock, routes,
                   middleware, port, listener, exitCode, lastReq, lastResp,
                   lastUptime>>

\* main.py:8
LoadDotenv ==
    /\ pc = "load_dotenv"
    /\ environ' = LoadDotenvMerge(environ, dotenvFile)
    /\ pc' = "create_app"
    /\ UNCHANGED <<procEnv, dotenvFile, defaultPort, clock, start_time, router,
                   routes, middleware, port, listener, exitCode, lastReq,
                   lastResp, lastUptime>>

\* main.py:10
CreateApp ==
    /\ pc = "create_app"
    /\ routes' = DocsRoutes
    /\ pc' = "add_middleware"
    /\ UNCHANGED <<procEnv, dotenvFile, defaultPort, environ, clock, start_time,
                   router, middleware, port, listener, exitCode, lastReq,
                   lastResp, lastUptime>>

\* main.py:12-18
AddMiddleware ==
    /\ pc = "add_middleware"
    /\ middleware' = Some(CorsPolicy)
    /\ pc' = "include_router"
    /\ UNCHANGED <<procEnv, dotenvFile, defaultPort, environ, clock, start_time,
                   router, routes, port, listener, exitCode, lastReq, lastResp,
                   lastUptime>>

\* main.py:20
IncludeRouter ==
    /\ pc = "include_router"
    /\ routes' = routes \cup IncludedRoutes(router)
    /\ pc' = "add_root"
    /\ UNCHANGED <<procEnv, dotenvFile, defaultPort, environ, clock, start_time,
                   router, middleware, port, listener, exitCode, lastReq,
                   lastResp, lastUptime>>

\* main.py:23-25
AddRoot ==
    /\ pc = "add_root"
    /\ routes' = routes \cup {RootRoute}
    /\ pc' = "parse_port"
    /\ UNCHANGED <<procEnv, dotenvFile, defaultPort, environ, clock, start_time,
                   router, middleware, port, listener, exitCode, lastReq,
                   lastResp, lastUptime>>

\* main.py:30: a ValueError of int() ends the process with a traceback.
ParsePort ==
    /\ pc = "parse_port"
    /\ LET r == PyInt(GetenvPort(environ, defaultPort))
       IN IF r.ok
          THEN port' = Some(r.n) /\ pc' = "run" /\ exitCode' = exitCode
          ELSE port' = port /\ pc' = "failed" /\ exitCode' = Some(1)
    /\ UNCHANGED <<procEnv, dotenvFile, defaultPort, environ, clock, start_time,
                   router, routes, middleware, listener, lastReq, lastResp,
                   lastUptime>>

Host == "0.0.0.0"

\* main.py:31: uvicorn.run binds the socket, or ends the process when the
\* number is no port.
UvicornRun ==
    /\ pc = "run"
    /\ IF Bindable(Val(port))
       THEN /\ \E b \in BoundPorts(Val(port)) :
                   listener' = Some([host |-> Host, port |-> b])
            /\ pc' = "listening"
            /\ exitCode' = exitCode
       ELSE listener' = listener /\ pc' = "failed" /\ exitCode' = Some(1)
    /\ UNCHANGED <<procEnv, dotenvFile, defaultPort, environ, clock, start_time,
                   router, routes, middleware, port, lastReq, lastResp, lastUptime>>

\* -------------------------------------------------------------- requests

\* The path operation a request reaches through the middleware and the
\* router, "" when it reaches none.
Handler(mw, rs, req) ==
    IF mw # None /\ req.origin # None /\ req.method = "OPTIONS" /\ req.acrm # None
    THEN ""
    ELSE IF \E r \in rs : Match(r, req) = "FULL"
    THEN (CHOOSE r \in rs : Match(r, req) = "FULL").endpoint
    ELSE ""

Answer(req) ==
    /\ lastReq' = Some(req)
    /\ lastResp' = Some(App(middleware, routes, req, clock, Val(start_time)))

\* A request that reaches root()
ServeRoot(req) ==
    /\ pc = "listening"
    /\ Handler(middleware, routes, req) = "root"
    /\ Answer(req)
    /\ UNCHANGED <<procEnv, dotenvFile, defaultPort, environ, clock, start_time,
                   router, routes, middleware, port, listener, pc, exitCode,
                   lastUptime>>

ServeHealthRestartingUptime(req) ==
    /\ pc = "listening"
    /\ Handler(middleware, routes, req) = "health"
    /\ Answer(req)
    /\ lastUptime' = Some(health(clock, Val(start_time)).uptime)
    /\ start_time' = Some(clock)
    /\ UNCHANGED <<procEnv, dotenvFile, defaultPort, environ, clock, router,
                   routes, middleware, port, listener, pc, exitCode>>

\* A request that reaches health()
ServeHealth(req) ==
    /\ pc = "listening"
    /\ Handler(middleware, routes, req) = "health"
    /\ Answer(req)
    /\ lastUptime' = Some(health(clock, Val(start_time)).uptime)
    /\ UNCHANGED <<procEnv, dotenvFile, defaultPort, environ, clock, start_time,
                   router, routes, middleware, port, listener, pc, exitCode>>

\* A request that reaches ready()
ServeReady(req) ==
    /\ pc = "listening"
    /\ Handler(middleware, routes, req) = "ready"
    /\ Answer(req)
    /\ UNCHANGED <<procEnv, dotenvFile, defaultPort, environ, clock, start_time,
                   router, routes, middleware, port, listener, pc, exitCode,
                   lastUptime>>

\* A request answered by the framework: a documentation route, a preflight
\* response, a redirect, 404 or 405
ServeOther(req) ==
    /\ pc = "listening"
    /\ Handler(middleware, routes, req) \notin {"root", "health", "ready"}
    /\ Answer(req)
    /\ UNCHANGED <<procEnv, dotenvFile, defaultPort, environ, clock, start_time,
                   router, routes, middleware, port, listener, pc, exitCode,
                   lastUptime>>

\* ----------------------------------------------------------- environment

Running == pc \notin {"failed", "terminated"}

\* Time passes.
Tick ==
    /\ Running
    /\ clock < MaxClock
    /\ clock' = clock + 1
    /\ UNCHANGED <<procEnv, dotenvFile, defaultPort, environ, start_time, router,
                   routes, middleware, port, listener, pc, exitCode, lastReq,
                   lastResp, lastUptime>>

\* The wall clock is set back (clock synchronisation, an administrator).
ClockSetBack ==
    /\ Running
    /\ \E t \in 0..MaxClock : t < clock /\ clock' = t
    /\ UNCHANGED <<procEnv, dotenvFile, defaultPort, environ, start_time, router,
                   routes, middleware, port, listener, pc, exitCode, lastReq,
                   lastResp, lastUptime>>

\* The serving process is ended from outside.
Terminate ==
    /\ pc = "listening"
    /\ pc' = "terminated"
    /\ listener' = None
    /\ UNCHANGED <<procEnv, dotenvFile, defaultPort, environ, clock, start_time,
                   router, routes, middleware, port, exitCode, lastReq, lastResp,
                   lastUptime>>

Next ==
    \/ ImportHealth
    \/ LoadDotenv
    \/ CreateApp
    \/ AddMiddleware
    \/ IncludeRouter
    \/ AddRoot
    \/ ParsePort
    \/ UvicornRun
    \/ \E req \in Requests : ServeRoot(req)
    \/ \E req \in Requests : ServeHealth(req)
    \/ \E req \in Requests : ServeReady(req)
    \/ \E req \in Requests : ServeOther(req)
    \/ Tick
    \/ ClockSetBack
    \/ Terminate

Spec == Init /\ [][Next]_vars

\* ---------------------------------------------------------------- claims

HealthPath == Path(<<"health">>, TRUE)

ReadyPath == Path(<<"health", "ready">>, FALSE)

DefinedPaths == {RootPath, HealthPath, ReadyPath}

LastIsGet(path) ==
    lastReq # None /\ Val(lastReq).method = "GET" /\ Val(lastReq).path = path

LastIsPreflight ==
    /\ lastReq # None
    /\ Val(lastReq).method = "OPTIONS"
    /\ Val(lastReq).origin # None
    /\ Val(lastReq).acrm # None

\* The step answers a request.
Answered == <<lastReq, lastResp>>' # <<lastReq, lastResp>>

\* os.environ has a PORT that int() takes.
PortParses == environ # None /\ IntOfStr(Val(environ)).ok

PortNumber == IntOfStr(Val(environ)).n

StartupOver == pc \in {"listening", "failed", "terminated"}

\* C1: of two GET /health/ responses of one process, the later one never
\* reports a smaller uptime than the earlier one, whatever the clock does.
C1_UptimeNonDecreasing ==
    [][(lastUptime # None /\ lastUptime' # None)
           => Val(lastUptime') >= Val(lastUptime)]_vars

\* C2: every GET /health/ is answered 200 with status "healthy" and an
\* uptime that is not negative.
C2_HealthyNonNegative ==
    LastIsGet(HealthPath) =>
        /\ Val(lastResp).status = 200
        /\ DOMAIN Val(lastResp).body = {"status", "uptime"}
        /\ Val(lastResp).body.status = "healthy"
        /\ Val(lastResp).body.uptime >= 0

\* C3: with a PORT that is set and is no integer, the entrypoint fails before
\* uvicorn.run is called: no listener is bound and no request is served.
C3_BadPortNeverListens ==
    (environ # None /\ ~IntOfStr(Val(environ)).ok) =>
        /\ pc \notin {"run", "listening", "terminated"}
        /\ listener = None
        /\ port = None
        /\ lastReq = None
        /\ pc \notin {"import_health", "load_dotenv", "create_app",
                      "add_middleware", "include_router", "add_root",
                      "parse_port"} => pc = "failed" /\ exitCode # None

C3_Witness ==
    pc = "failed" /\ environ = Some(<<"8", "0", ".", "0">>) /\ exitCode = Some(1)

\* C4: with a valid port P in PORT the listener is bound on 0.0.0.0:P, every
\* GET / is answered 200 with the greeting, and answering it changes no
\* state of the server.
C4_ValidPortServesGreeting ==
    /\ [](/\ (PortParses /\ PortNumber \in 1..65535) =>
                /\ pc # "failed"
                /\ pc = "listening" =>
                       listener = Some([host |-> "0.0.0.0", port |-> PortNumber])
          /\ LastIsGet(RootPath) =>
                /\ Val(lastResp).status = 200
                /\ Val(lastResp).body = [message |-> <<"Welcome to ", ProjectName>>])
    /\ [][(Answered /\ LastIsGet(RootPath)') =>
              UNCHANGED <<environ, start_time, router, routes, middleware, port,
                          listener, pc, exitCode, lastUptime>>]_vars

C4_Witness ==
    /\ LastIsGet(RootPath)
    /\ lastUptime # None
    /\ listener = Some([host |-> "0.0.0.0", port |-> 65535])

\* C5: when os.environ has no PORT the listener is bound on the default port
\* and start-up does not fail; a valid PORT of the environment is the port
\* bound, whatever the default and the .env file say.
C5_DefaultAndPrecedence ==
    /\ (environ = None /\ pc \notin {"import_health", "load_dotenv"}) =>
           /\ pc # "failed"
           /\ pc = "listening" =>
                  listener = Some([host |-> "0.0.0.0", port |-> defaultPort])
    /\ (procEnv # None /\ IntOfStr(Val(procEnv)).ok
            /\ IntOfStr(Val(procEnv)).n \in 1..65535 /\ pc = "listening") =>
           Val(listener).port = IntOfStr(Val(procEnv)).n

C5_Witness ==
    /\ pc = "listening"
    /\ procEnv = None /\ dotenvFile = None
    /\ Val(listener).port = 8000

\* C6: every GET /health/ready is answered 200 with ready = true, whatever
\* the start time, the clock and the earlier requests are.
C6_ReadyAlwaysTrue ==
    LastIsGet(ReadyPath) =>
        /\ Val(lastResp).status = 200
        /\ Val(lastResp).body = [ready |-> TRUE]

C6_Witness ==
    LastIsGet(ReadyPath) /\ lastUptime # None /\ clock < Val(start_time)

\* C7 as stated: a GET of a path other than /, /health/ and /health/ready is
\* answered not found.
C7_OnlyThreePaths ==
    (lastReq # None /\ Val(lastReq).method = "GET"
         /\ Val(lastReq).path \notin DefinedPaths) =>
        Val(lastResp).status = 404

DocumentationPaths ==
    { Path(<<"openapi.json">>, FALSE), Path(<<"docs">>, FALSE),
      Path(<<"docs", "oauth2-redirect">>, FALSE), Path(<<"redoc">>, FALSE) }

\* C7 amended: a GET of a path other than the three defined paths and the
\* four documentation paths is answered not found, or, when the path differs
\* from one of the seven only by its trailing slash, redirected to it; no
\* path outside the seven is answered with a success status.
C7_UnknownPathNotFound ==
    (lastReq # None /\ Val(lastReq).method = "GET"
         /\ Val(lastReq).path \notin DefinedPaths \cup DocumentationPaths) =>
        LET other == Path(Val(lastReq).path.segs, ~Val(lastReq).path.slash)
        IN IF other \in DefinedPaths \cup DocumentationPaths
           THEN /\ Val(lastResp).status = 307
                /\ Val(lastResp).body = [location |-> other]
           ELSE Val(lastResp).status = 404

C7_Witness ==
    /\ lastReq # None /\ Val(lastReq).method = "GET"
    /\ Val(lastReq).path = Path(<<"does-not-exist">>, FALSE)
    /\ Val(lastResp).status = 404

C9_NothingRejected ==
    /\ (lastReq # None /\ Val(lastReq).method = "GET"
            /\ Val(lastReq).path \in DefinedPaths) => Val(lastResp).status = 200
    /\ LastIsPreflight => Val(lastResp).status = 200

\* C9 amended: a GET of one of the three endpoints succeeds whatever Origin
\* it carries; no request is rejected because of its origin or its requested
\* headers; a preflight request is rejected, for its method alone, exactly
\* when the method it asks for is none of DELETE, GET, HEAD, OPTIONS, PATCH,
\* POST and PUT.
C9_RejectedOnlyForUnlistedMethod ==
    /\ (lastReq # None /\ Val(lastReq).method = "GET"
            /\ Val(lastReq).path \in DefinedPaths) =>
           /\ Val(lastResp).status = 200
           /\ Val(lastReq).origin # None => Val(lastResp).acao # None
    /\ LastIsPreflight =>
           IF Val(lastReq).acrm \subseteq
                  {"DELETE", "GET", "HEAD", "OPTIONS", "PATCH", "POST", "PUT"}
           THEN Val(lastResp).status = 200 /\ Val(lastResp).acao = Val(lastReq).origin
           ELSE /\ Val(lastResp).status = 400
                /\ Val(lastResp).body = [disallowed |-> {"method"}]
    /\ (lastReq # None /\ ~LastIsPreflight) => Val(lastResp).status # 400

C9_Witness ==
    /\ LastIsPreflight
    /\ Val(lastReq).origin = Some("null")
    /\ Val(lastReq).acrm = Some("GET")
    /\ Val(lastReq).acrh # {}
    /\ Val(lastResp).status = 200

\* C10: start_time is written once, when routes.health is loaded, before any
\* request is served, and no later step, whichever requests it answers,
\* changes it.
C10_StartTimeWrittenOnce ==
    /\ [](pc # "import_health" <=> start_time # None)
    /\ [][start_time # None => start_time' = start_time]_vars
    /\ [][start_time' # start_time => (lastReq = None /\ lastReq' = None)]_vars

C10_Witness ==
    /\ LastIsGet(ReadyPath)
    /\ lastUptime # None
    /\ Val(lastUptime) # clock - Val(start_time)

====
